---------------------------- MODULE Spec2Model ----------------------------
(***************************************************************************)
(* Model of the data-acquisition layer of mpk-rs:                          *)
(*   - clients/sims.rs      Client::get_data, the mirror fan-out fetcher   *)
(*   - clients/mpk_wroc.rs  Client::get_data, the digest-authenticated     *)
(*                          single-host fetch with the untagged            *)
(*                          ApiResponse<T> decoder                         *)
(*   - clients/mpk_wroc.rs  the Deserialize impls of Bus and BusList       *)
(* The three parts share no state; each has its own specification.         *)
(***************************************************************************)
EXTENDS Integers, Sequences, FiniteSets, TLC

VARIABLES
    \* ---- sims::Client::get_data ----
    pc,        \* "idle" | "running" | "returned"
    cur,       \* position of stream::iter(API_URLS): next host to take
    leg,       \* per host: "unissued" | "sent" | "headers" | "ok" | "err"
    sent,      \* per host: number of GETs sent to it during this call
    results,   \* the Vec<Result<Vec<T>, Error>> that collect() builds
    ret,       \* the (Vec<T>, Vec<Error>) handed to the caller, or NoRet
    delivered, \* per host: what the network did to its leg during this call
    \* ---- mpk_wroc::Client::get_data ----
    mpc,       \* "idle" | "first" | "second" | "json" | "done"
    tshape,    \* the caller's T: the fields its success shape requires
    reqs,      \* the GETs sent during this call, in order
    resp1,     \* the response to the first GET, or NoResp
    resp2,     \* the response to the second GET, or NoResp
    used,      \* which response send_with_digest_auth handed back: 0, 1, 2
    mbody,     \* the body json() read from that response, or NoBody
    mres,      \* the Result<T, ClientError> of the call, or Pending
    \* ---- serde_json::from_str::<Bus>, ::<BusList> ----
    dop,       \* "none" | "Bus" | "Spellings" | "BusList"
    din,       \* the JSON values handed to the decoder, in order
    dout       \* the decoder's result for each of them

simsVars == <<pc, cur, leg, sent, results, ret, delivered>>
mpkVars == <<mpc, tshape, reqs, resp1, resp2, used, mbody, mres>>

decVars == <<dop, din, dout>>

vars == <<simsVars, mpkVars, decVars>>

(***************************************************************************)
(* Bounds of the model.                                                    *)
(***************************************************************************)
MaxRecs == 2        \* longest JSON array a mirror answers with
MaxLen == 3         \* longest JSON array handed to the BusList decoder

(***************************************************************************)
(*                     clients/sims.rs : the fan-out                       *)
(***************************************************************************)
NumHosts == 3       \* API_URLS: [&str; 3]
Hosts == 1..NumHosts

\* The elements of a mirror's JSON array: those that decode as T, and one
\* that does not (a missing field, a wrong type).
Records == {[valid |-> TRUE, id |-> n] : n \in {"r1", "r2"}}
Bad == [valid |-> FALSE, id |-> "bad"]
Elems == Records \cup {Bad}

RECURSIVE SeqsUpTo(_, _)
SeqsUpTo(S, n) ==
    IF n = 0 THEN {<<>>}
    ELSE LET shorter == SeqsUpTo(S, n - 1)
         IN  shorter \cup {Append(s, e) : s \in {t \in shorter : Len(t) = n - 1}, e \in S}

Bodies == SeqsUpTo(Elems, MaxRecs)

NoErr == [host |-> 0, stage |-> "none"]
NoRet == [items |-> <<>>, errors |-> <<>>, set |-> FALSE]

Ok(v)  == [ok |-> TRUE,  val |-> v,    err |-> NoErr]
Err(e) == [ok |-> FALSE, val |-> <<>>, err |-> e]

\* reqwest::Error of host h (it carries the url): raised by send(), or by
\* json() while reading the body, or by json() while decoding it.
SendError(h)   == [host |-> h, stage |-> "send"]
BodyError(h)   == [host |-> h, stage |-> "body"]
DecodeError(h) == [host |-> h, stage |-> "decode"]

\* What the network delivers to one leg.
NotYet      == [kind |-> "none", body |-> <<>>]
NoAnswer    == [kind |-> "sendfail", body |-> <<>>]
BrokenBody  == [kind |-> "bodyfail", body |-> <<>>]
Answer(b)   == [kind |-> "body", body |-> b]

\* Response::json::<Vec<T>>(): every element must decode as T.
JsonVec(h, b) ==
    IF \E k \in 1..Len(b) : ~b[k].valid THEN Err(DecodeError(h)) ELSE Ok(b)

IsOk(r) == r.ok

RECURSIVE FlatMapUnwrap(_)
FlatMapUnwrap(rs) ==
    IF rs = <<>> THEN <<>> ELSE Head(rs).val \o FlatMapUnwrap(Tail(rs))

RECURSIVE MapUnwrapErr(_)
MapUnwrapErr(rs) ==
    IF rs = <<>> THEN <<>> ELSE <<Head(rs).err>> \o MapUnwrapErr(Tail(rs))

RECURSIVE Reverse(_)
Reverse(s) == IF s = <<>> THEN <<>> ELSE Append(Reverse(Tail(s)), Head(s))

\* results.into_iter().partition(Result::is_ok), then the two collects.
PartitionDropsEmpty(rs) ==
    [items  |-> FlatMapUnwrap(SelectSeq(rs, IsOk)),
     errors |-> IF SelectSeq(rs, IsOk) = <<>> THEN <<>>
                ELSE MapUnwrapErr(SelectSeq(rs, LAMBDA r : ~IsOk(r))),
     set    |-> TRUE]
PartitionReversed(rs) ==
    [items  |-> FlatMapUnwrap(Reverse(SelectSeq(rs, IsOk))),
     errors |-> Reverse(MapUnwrapErr(SelectSeq(rs, LAMBDA r : ~IsOk(r)))),
     set    |-> TRUE]
Partition(rs) ==
    [items  |-> FlatMapUnwrap(SelectSeq(rs, IsOk)),
     errors |-> MapUnwrapErr(SelectSeq(rs, LAMBDA r : ~IsOk(r))),
     set    |-> TRUE]

Settled(h) == leg[h] \in {"ok", "err"}
Outstanding(h) == leg[h] \in {"sent", "headers"}

SimsStart ==
    /\ pc = "idle"
    /\ cur = 1
    /\ leg = [h \in Hosts |-> "unissued"]
    /\ sent = [h \in Hosts |-> 0]
    /\ results = <<>>
    /\ ret = NoRet
    /\ delivered = [h \in Hosts |-> NotYet]

\* A caller awaits get_data(endpoint) (get_buses, get_bus_stops, get_timetable).
Call ==
    /\ pc \in {"idle", "returned"}
    /\ pc' = "running"
    /\ cur' = 1
    /\ leg' = [h \in Hosts |-> "unissued"]
    /\ sent' = [h \in Hosts |-> 0]
    /\ results' = <<>>
    /\ ret' = NoRet
    /\ delivered' = [h \in Hosts |-> NotYet]
    /\ UNCHANGED <<mpkVars, decVars>>

\* Then::poll_next with no pending future: the stream takes the next host,
\* the closure builds the url and the leg's future sends its GET.
\* Then holds one future at a time, so the previous host's leg is finished.
CanDispatch(h) == pc = "running" /\ cur = h /\ leg[h] = "unissued"

Dispatch(h) ==
    /\ CanDispatch(h)
    /\ leg' = [leg EXCEPT ![h] = "sent"]
    /\ sent' = [sent EXCEPT ![h] = @ + 1]
    /\ UNCHANGED <<pc, cur, results, ret, delivered>>
    /\ UNCHANGED <<mpkVars, decVars>>

\* The leg's value reaches collect(): pushed, and the stream moves on.
SettleRetry(h, r) ==
    /\ IF r.ok
       THEN /\ leg' = [leg EXCEPT ![h] = "ok"]
            /\ results' = Append(results, r)
            /\ cur' = h + 1
       ELSE /\ leg' = [leg EXCEPT ![h] = "unissued"]
            /\ UNCHANGED <<results, cur>>
    /\ UNCHANGED <<pc, sent, ret>>
    /\ UNCHANGED <<mpkVars, decVars>>
Settle(h, r) ==
    /\ leg' = [leg EXCEPT ![h] = IF r.ok THEN "ok" ELSE "err"]
    /\ results' = Append(results, r)
    /\ cur' = h + 1
    /\ UNCHANGED <<pc, sent, ret>>
    /\ UNCHANGED <<mpkVars, decVars>>

\* send().await? fails: connection, DNS, timeout.
SendFails(h) ==
    /\ pc = "running" /\ leg[h] = "sent"
    /\ delivered' = [delivered EXCEPT ![h] = NoAnswer]
    /\ Settle(h, Err(SendError(h)))

\* send().await yields a Response (its body is not read yet).
Respond(h) ==
    /\ pc = "running" /\ leg[h] = "sent"
    /\ leg' = [leg EXCEPT ![h] = "headers"]
    /\ UNCHANGED <<pc, cur, sent, results, ret, delivered>>
    /\ UNCHANGED <<mpkVars, decVars>>

\* json::<Vec<T>>().await: the body cannot be read.
BodyFails(h) ==
    /\ pc = "running" /\ leg[h] = "headers"
    /\ delivered' = [delivered EXCEPT ![h] = BrokenBody]
    /\ Settle(h, Err(BodyError(h)))

\* json::<Vec<T>>().await: the body b arrives and is decoded.
ReadJson(h) ==
    /\ pc = "running" /\ leg[h] = "headers"
    /\ \E b \in Bodies :
          /\ delivered' = [delivered EXCEPT ![h] = Answer(b)]
          /\ Settle(h, JsonVec(h, b))

\* collect() is complete once the stream is exhausted.
CollectDoneEarly == pc = "running" /\ Len(results) >= 1
CollectDone == pc = "running" /\ cur = NumHosts + 1

Return ==
    /\ CollectDone
    /\ ret' = Partition(results)
    /\ pc' = "returned"
    /\ UNCHANGED <<cur, leg, sent, results, delivered>>
    /\ UNCHANGED <<mpkVars, decVars>>

SimsNext ==
    \/ Call
    \/ \E h \in Hosts : Dispatch(h)
    \/ \E h \in Hosts : SendFails(h)
    \/ \E h \in Hosts : Respond(h)
    \/ \E h \in Hosts : BodyFails(h)
    \/ \E h \in Hosts : ReadJson(h)
    \/ Return

(***************************************************************************)
(*         clients/mpk_wroc.rs : the digest-authenticated fetch            *)
(***************************************************************************)
USERNAME == "android-mpk"
PASSWORD == "g5crehAfUCh4Wust"

\* The WWW-Authenticate header of a response: absent, present without the
\* fields a digest needs, or a challenge with a nonce.
Nonces == {"n1", "n2"}
Challenges == {"absent", "malformed"} \cup Nonces
Statuses == {200, 401, 500}
Responses == [status : Statuses, chal : Challenges]
NoResp == [status |-> 0, chal |-> "absent"]

Is2xx(st) == st >= 200 /\ st < 300
IsUnauthorized(st) == st = 401

\* A request: its Authorization header.
NoAuth == [scheme |-> "none", user |-> "", nonce |-> "", response |-> <<>>]
\* The digest answer to challenge nonce n: username, the nonce echoed, and
\* the response hash over the credentials and the nonce.
DigestStale(n) ==
    [scheme |-> "Digest", user |-> USERNAME, nonce |-> "n1",
     response |-> <<USERNAME, PASSWORD, "n1">>]
Digest(n) ==
    [scheme |-> "Digest", user |-> USERNAME, nonce |-> n,
     response |-> <<USERNAME, PASSWORD, n>>]

\* JSON bodies: an object gives each key a string, a number or nothing; a
\* body may also be JSON that is no object, or no JSON at all.
Keys == {"info", "message", "stackTrace", "l"}
Absent == [t |-> "absent", v |-> ""]
Str(v) == [t |-> "string", v |-> v]
Num == [t |-> "number", v |-> "7"]
Values == {Absent, Num, Str("X"), Str("Y")}
Objects == [Keys -> Values]
NotJson == [k \in Keys |-> [t |-> "notjson", v |-> ""]]
JsonArray == [k \in Keys |-> [t |-> "array", v |-> ""]]
NoBody == [k \in Keys |-> [t |-> "nobody", v |-> ""]]
MpkBodies == Objects \cup {NotJson, JsonArray}

IsObject(b) == \A k \in Keys : b[k].t \in {"absent", "number", "string"}

\* The success shapes T the callers ask for: structs of String fields, named
\* by the fields they require (unknown fields are ignored).
TShapes == {{"l"}, {"message"}, {"info", "l"}}

DeOk(v) == [ok |-> TRUE, val |-> v]
DeErr == [ok |-> FALSE, val |-> <<>>]

\* A derived Deserialize of a struct of String fields: a JSON object in
\* which every field is present and a string.
DeStruct(fields, b) ==
    IF IsObject(b) /\ \A k \in fields : b[k].t = "string"
    THEN DeOk([k \in fields |-> b[k].v])
    ELSE DeErr

\* MpkError: info, message, stack_trace (camelCase: stackTrace).
MpkErrorFields == {"info", "message", "stackTrace"}

Pending == [kind |-> "Pending", val |-> <<>>]
Success(v) == [kind |-> "Success", val |-> v]
ApiError(e) == [kind |-> "Error", val |-> e]

\* #[serde(untagged)] enum ApiResponse<T> { Success(T), Error(MpkError) }:
\* the variants are tried in the order they are declared.
UntaggedErrorFirst(shape, b) ==
    IF DeStruct(MpkErrorFields, b).ok THEN DeOk(ApiError(DeStruct(MpkErrorFields, b).val))
    ELSE IF DeStruct(shape, b).ok THEN DeOk(Success(DeStruct(shape, b).val))
    ELSE DeErr
Untagged(shape, b) ==
    IF DeStruct(shape, b).ok THEN DeOk(Success(DeStruct(shape, b).val))
    ELSE IF DeStruct(MpkErrorFields, b).ok THEN DeOk(ApiError(DeStruct(MpkErrorFields, b).val))
    ELSE DeErr

\* ClientError and the call's result.
ResOk(v) == [kind |-> "Ok", val |-> v]
ResMpkError(e) == [kind |-> "MpkError", val |-> e]
ResReqwestError(what) == [kind |-> "ReqwestError", val |-> what]
ResHttpError(what) == [kind |-> "HttpError", val |-> what]

\* impl From<ApiResponse<T>> for Result<T, E>
Into(a) == IF a.kind = "Success" THEN ResOk(a.val) ELSE ResMpkError(a.val)

\* response.json::<ApiResponse<T>>().await?.into()
JsonInto(shape, b) ==
    IF Untagged(shape, b).ok THEN Into(Untagged(shape, b).val)
    ELSE ResReqwestError("decode")

MpkStart ==
    /\ mpc = "idle"
    /\ tshape = {}
    /\ reqs = <<>>
    /\ resp1 = NoResp
    /\ resp2 = NoResp
    /\ used = 0
    /\ mbody = NoBody
    /\ mres = Pending

\* A caller awaits get_data::<T>(params): the url is built from the
\* constant HOSTNAME, and send_with_digest_auth is called on the GET as
\* built by self.client.get(url), which carries no credentials.  What
\* send_with_digest_auth does from there is the digest crate's, not this
\* repository's: the steps First... and Second... below follow the
\* negotiation as the design describes it.
MpkCall ==
    /\ mpc \in {"idle", "done"}
    /\ \E shape \in TShapes : tshape' = shape
    /\ reqs' = <<NoAuth>>
    /\ resp1' = NoResp
    /\ resp2' = NoResp
    /\ used' = 0
    /\ mbody' = NoBody
    /\ mres' = Pending
    /\ mpc' = "first"
    /\ UNCHANGED <<simsVars, decVars>>

\* send_with_digest_auth(..).await? returns Err: ClientError::HttpError.
Fail(e) ==
    /\ mres' = e
    /\ mpc' = "done"

\* The first GET fails in transport.
FirstFails ==
    /\ mpc = "first"
    /\ Fail(ResHttpError("reqwest"))
    /\ UNCHANGED <<tshape, reqs, resp1, resp2, used, mbody>>
    /\ UNCHANGED <<simsVars, decVars>>

\* The first response is no 401: it is the response of the call.
FirstNotChallenge ==
    /\ mpc = "first"
    /\ \E r \in Responses :
          /\ ~IsUnauthorized(r.status)
          /\ resp1' = r
    /\ used' = 1
    /\ mpc' = "json"
    /\ UNCHANGED <<tshape, reqs, resp2, mbody, mres>>
    /\ UNCHANGED <<simsVars, decVars>>

\* The first response is a 401 with a digest challenge: the GET is sent
\* again with the Authorization header answering that challenge.
FirstChallenge ==
    /\ mpc = "first"
    /\ \E r \in Responses :
          /\ IsUnauthorized(r.status)
          /\ r.chal \in Nonces
          /\ resp1' = r
          /\ reqs' = Append(reqs, Digest(r.chal))
    /\ mpc' = "second"
    /\ UNCHANGED <<tshape, resp2, used, mbody, mres>>
    /\ UNCHANGED <<simsVars, decVars>>

\* The first response is a 401 whose challenge cannot be answered (no
\* WWW-Authenticate header, or one without the fields a digest needs): the
\* negotiation fails and no second GET is sent.
FirstChallengeMalformed ==
    /\ mpc = "first"
    /\ \E r \in Responses :
          /\ IsUnauthorized(r.status)
          /\ r.chal \notin Nonces
          /\ resp1' = r
    /\ Fail(ResHttpError("MalformedChallenge"))
    /\ UNCHANGED <<tshape, reqs, resp2, used, mbody>>
    /\ UNCHANGED <<simsVars, decVars>>

\* The second GET fails in transport.
SecondFails ==
    /\ mpc = "second"
    /\ Fail(ResHttpError("reqwest"))
    /\ UNCHANGED <<tshape, reqs, resp1, resp2, used, mbody>>
    /\ UNCHANGED <<simsVars, decVars>>

\* The second response is handed back verbatim, whatever its status.
SecondResponse ==
    /\ mpc = "second"
    /\ \E r \in Responses : resp2' = r
    /\ used' = 2
    /\ mpc' = "json"
    /\ UNCHANGED <<tshape, reqs, resp1, mbody, mres>>
    /\ UNCHANGED <<simsVars, decVars>>

\* response.json().await?: the body cannot be read.
MpkBodyFails ==
    /\ mpc = "json"
    /\ Fail(ResReqwestError("body"))
    /\ UNCHANGED <<tshape, reqs, resp1, resp2, used, mbody>>
    /\ UNCHANGED <<simsVars, decVars>>

\* response.json::<ApiResponse<T>>().await?.into(): the body is read and
\* decoded; the status of the response is not looked at.
MpkReadJson ==
    /\ mpc = "json"
    /\ \E b \in MpkBodies :
          /\ mbody' = b
          /\ Fail(JsonInto(tshape, b))
    /\ UNCHANGED <<tshape, reqs, resp1, resp2, used>>
    /\ UNCHANGED <<simsVars, decVars>>

MpkNext ==
    \/ MpkCall
    \/ FirstFails
    \/ FirstNotChallenge
    \/ FirstChallenge
    \/ FirstChallengeMalformed
    \/ SecondFails
    \/ SecondResponse
    \/ MpkReadJson
    \/ MpkBodyFails

(***************************************************************************)
(*        clients/mpk_wroc.rs : the decoders of Bus and BusList            *)
(***************************************************************************)
\* JSON values.  A number is an integer n of the i32 range, or n + 1/2, or
\* 2^31 (JBig, the first integer beyond i32); an object is its members in
\* the order of the text.
JNull     == [t |-> "null",   s |-> "", n |-> 0, o |-> <<>>, a |-> <<>>]
JStr(x)   == [t |-> "string", s |-> x,  n |-> 0, o |-> <<>>, a |-> <<>>]
JNum(x)   == [t |-> "number", s |-> "", n |-> x, o |-> <<>>, a |-> <<>>]
JHalf(x)  == [t |-> "half",   s |-> "", n |-> x, o |-> <<>>, a |-> <<>>]
JBig      == [t |-> "big",    s |-> "", n |-> 0, o |-> <<>>, a |-> <<>>]
JObj(ms)  == [t |-> "object", s |-> "", n |-> 0, o |-> ms,   a |-> <<>>]
JArr(xs)  == [t |-> "array",  s |-> "", n |-> 0, o |-> <<>>, a |-> xs]
Member(k, v) == [k |-> k, v |-> v]

\* serde_json::Error: its message (the kind of mismatch and what it names).
\* It also carries the line and column of the text, which the model, having
\* no text, leaves out.
NoError == [code |-> "", what |-> ""]
SerdeError(code, what) == [code |-> code, what |-> what]
Good(v) == [ok |-> TRUE, val |-> v, err |-> NoError]
Fault(e) == [ok |-> FALSE, val |-> <<>>, err |-> e]

\* i32: an integer of the range.
DeI32(v) ==
    IF v.t = "number" THEN Good(v.n)
    ELSE IF v.t = "big" THEN Fault(SerdeError("invalid value", "i32"))
    ELSE Fault(SerdeError("invalid type", "i32"))

\* f32: any number, rounded to 24 bits of mantissa, ties to even.  An f32
\* is m * 2^e with m odd (or zero).  The integers used are below 2^25 and
\* the halves are not negative.
RECURSIVE F32(_, _)
F32(m, e) ==
    IF m = 0 THEN [m |-> 0, e |-> 0]
    ELSE IF m % 2 = 0 THEN F32(m \div 2, e + 1)
    ELSE [m |-> m, e |-> e]

RoundInt(n) ==
    IF n <= 2^24 THEN n
    ELSE IF n % 2 = 0 THEN n
    ELSE IF (n - 1) % 4 = 0 THEN n - 1 ELSE n + 1

DeF32(v) ==
    IF v.t = "number"
    THEN Good(IF v.n >= 0 THEN F32(RoundInt(v.n), 0) ELSE F32(-RoundInt(-v.n), 0))
    ELSE IF v.t = "half"
    THEN Good(IF 2 * v.n + 1 < 2^24 THEN F32(2 * v.n + 1, -1)
              ELSE F32(RoundInt(IF v.n % 2 = 0 THEN v.n ELSE v.n + 1), 0))
    ELSE IF v.t = "big" THEN Good(F32(1, 31))
    ELSE Fault(SerdeError("invalid type", "f32"))

DeString(v) ==
    IF v.t = "string" THEN Good(v.s) ELSE Fault(SerdeError("invalid type", "string"))

\* enum VehicleType, rename_all = "UPPERCASE", alias "b" and "t".
VehicleTypeNames == [Bus |-> {"BUS", "b"}, Tram |-> {"TRAM", "t"}]

DeVehicleType(v) ==
    IF v.t # "string" THEN Fault(SerdeError("invalid type", "VehicleType"))
    ELSE IF \E variant \in DOMAIN VehicleTypeNames : v.s \in VehicleTypeNames[variant]
    THEN Good(CHOOSE variant \in DOMAIN VehicleTypeNames : v.s \in VehicleTypeNames[variant])
    ELSE Fault(SerdeError("unknown variant", v.s))

\* struct Bus: the fields in the order they are declared, and the keys
\* each field answers to (alias adds a key, rename replaces it).
BusFields ==
    <<"code", "course", "latitude", "longitude", "line", "vehicle_type",
      "symbol", "direction", "delay">>
BusKeysDelayNoAlias ==
    [code |-> {"code", "v"}, course |-> {"course", "c"},
     latitude |-> {"x"}, longitude |-> {"y"},
     line |-> {"line", "l"}, vehicle_type |-> {"type", "t"},
     symbol |-> {"symbol", "s"}, direction |-> {"direction", "d"},
     delay |-> {"delay"}]
BusKeys ==
    [code |-> {"code", "v"}, course |-> {"course", "c"},
     latitude |-> {"x"}, longitude |-> {"y"},
     line |-> {"line", "l"}, vehicle_type |-> {"type", "t"},
     symbol |-> {"symbol", "s"}, direction |-> {"direction", "d"},
     delay |-> {"delay", "e"}]

FieldSet == {BusFields[i] : i \in 1..Len(BusFields)}

\* The name serde's messages give a field: its rename, or its own.
BusName(f) ==
    CASE f = "latitude" -> "x"
      [] f = "longitude" -> "y"
      [] f = "vehicle_type" -> "type"
      [] OTHER -> f

\* The value of one field: code, course, delay are i32, latitude and
\* longitude f32, line, symbol, direction String.
DeField(f, v) ==
    CASE f \in {"code", "course", "delay"}     -> DeI32(v)
      [] f \in {"latitude", "longitude"}       -> DeF32(v)
      [] f = "vehicle_type"                    -> DeVehicleType(v)
      [] OTHER                                 -> DeString(v)

\* Values of different fields are of different kinds: a slot wraps them.
Unset == [set |-> FALSE, i |-> 0, e |-> 0, s |-> ""]
Slot(f, x) ==
    IF f \in {"code", "course", "delay"}
    THEN [set |-> TRUE, i |-> x, e |-> 0, s |-> ""]
    ELSE IF f \in {"latitude", "longitude"}
    THEN [set |-> TRUE, i |-> x.m, e |-> x.e, s |-> ""]
    ELSE [set |-> TRUE, i |-> 0, e |-> 0, s |-> x]

\* The derived visit_map: the members in order; a key no field answers to
\* is skipped, a second member for a field is an error, a value of the wrong
\* type is an error; at the end every field must have been given.
RECURSIVE VisitMap(_, _)
VisitMap(ms, acc) ==
    IF ms = <<>>
    THEN IF \E f \in FieldSet : ~acc[f].set
         THEN LET i == CHOOSE j \in 1..Len(BusFields) :
                         /\ ~acc[BusFields[j]].set
                         /\ \A l \in 1..(j - 1) : acc[BusFields[l]].set
              IN  Fault(SerdeError("missing field", BusName(BusFields[i])))
         ELSE Good(acc)
    ELSE LET m == Head(ms)
             fs == {f \in FieldSet : m.k \in BusKeys[f]}
         IN  IF fs = {} THEN VisitMap(Tail(ms), acc)
             ELSE LET f == CHOOSE g \in fs : TRUE
                  IN  IF acc[f].set THEN Fault(SerdeError("duplicate field", BusName(f)))
                      ELSE IF ~DeField(f, m.v).ok THEN Fault(DeField(f, m.v).err)
                      ELSE VisitMap(Tail(ms),
                                    [acc EXCEPT ![f] = Slot(f, DeField(f, m.v).val)])

\* The derived visit_seq: the fields by position, no more and no fewer.
RECURSIVE VisitSeq(_, _, _)
VisitSeq(xs, i, acc) ==
    IF i > Len(BusFields)
    THEN IF Len(xs) >= i THEN Fault(SerdeError("trailing characters", "")) ELSE Good(acc)
    ELSE IF Len(xs) < i
    THEN Fault(SerdeError("invalid length", "struct Bus with 9 elements"))
    ELSE IF ~DeField(BusFields[i], xs[i]).ok THEN Fault(DeField(BusFields[i], xs[i]).err)
    ELSE VisitSeq(xs, i + 1,
                  [acc EXCEPT ![BusFields[i]] =
                      Slot(BusFields[i], DeField(BusFields[i], xs[i]).val)])

\* #[derive(Deserialize)] struct Bus
DeBus(v) ==
    IF v.t = "object" THEN VisitMap(v.o, [f \in FieldSet |-> Unset])
    ELSE IF v.t = "array" THEN VisitSeq(v.a, 1, [f \in FieldSet |-> Unset])
    ELSE Fault(SerdeError("invalid type", "struct Bus"))

\* The loop of BusListVisitor::visit_seq: while let Some(bus) =
\* seq.next_element()? { buses.push(bus) }.
RECURSIVE NextElementsSkipping(_, _)
NextElementsSkipping(xs, buses) ==
    IF xs = <<>> THEN Good(buses)
    ELSE IF ~DeBus(Head(xs)).ok THEN NextElementsSkipping(Tail(xs), buses)
    ELSE NextElementsSkipping(Tail(xs), Append(buses, DeBus(Head(xs)).val))

RECURSIVE NextElements(_, _)
NextElements(xs, buses) ==
    IF xs = <<>> THEN Good(buses)
    ELSE IF ~DeBus(Head(xs)).ok THEN Fault(DeBus(Head(xs)).err)
    ELSE NextElements(Tail(xs), Append(buses, DeBus(Head(xs)).val))

\* impl Deserialize for BusList: deserialize_seq(BusListVisitor).
DeBusListLenient(v) ==
    IF v.t # "array" THEN Fault(SerdeError("invalid type", "BusList"))
    ELSE IF v.a = <<>> THEN Fault(SerdeError("invalid length", "0"))
    ELSE IF ~DeString(v.a[1]).ok THEN Fault(DeString(v.a[1]).err)
    ELSE Good([timestamp |-> DeString(v.a[1]).val,
               buses |-> NextElementsSkipping(Tail(v.a), <<>>).val])
DeBusList(v) ==
    IF v.t # "array" THEN Fault(SerdeError("invalid type", "BusList"))
    ELSE IF v.a = <<>> THEN Fault(SerdeError("invalid length", "0"))
    ELSE IF ~DeString(v.a[1]).ok THEN Fault(DeString(v.a[1]).err)
    ELSE IF ~NextElements(Tail(v.a), <<>>).ok
         THEN Fault(NextElements(Tail(v.a), <<>>).err)
    ELSE Good([timestamp |-> DeString(v.a[1]).val,
               buses |-> NextElements(Tail(v.a), <<>>).val])

(***************************************************************************)
(* The inputs the decoders are run on.                                     *)
(***************************************************************************)
\* Logical vehicles: what a payload says, whichever its spelling.
Vehicles ==
    [code : {1, 8418}, course : {25626631},
     x : {JNum(17), JHalf(17), JNum(2^24 + 1)}, y : {JHalf(51)},
     line : {"N"}, vt : {"Bus", "Tram"}, symbol : {"20903"},
     direction : {"29324"}, delay : {0, 27000, -60}]

\* test_bus_shortcut_from_json: the single-letter keys, "b" / "t".
CompactJson(b) ==
    JObj(<<Member("v", JNum(b.code)), Member("c", JNum(b.course)),
           Member("x", b.x), Member("y", b.y), Member("l", JStr(b.line)),
           Member("t", JStr(IF b.vt = "Bus" THEN "b" ELSE "t")),
           Member("s", JStr(b.symbol)), Member("d", JStr(b.direction)),
           Member("e", JNum(b.delay))>>)

\* test_bus_full_from_json: the long keys, "BUS" / "TRAM".
VerboseJson(b) ==
    JObj(<<Member("code", JNum(b.code)), Member("course", JNum(b.course)),
           Member("x", b.x), Member("y", b.y), Member("line", JStr(b.line)),
           Member("type", JStr(IF b.vt = "Bus" THEN "BUS" ELSE "TRAM")),
           Member("symbol", JStr(b.symbol)), Member("direction", JStr(b.direction)),
           Member("delay", JNum(b.delay))>>)

Vehicle0 ==
    [code |-> 8418, course |-> 25626631, x |-> JNum(17), y |-> JHalf(51),
     line |-> "N", vt |-> "Bus", symbol |-> "20903", direction |-> "29324",
     delay |-> 0]
Vehicle1 == [Vehicle0 EXCEPT !.code = 1, !.vt = "Tram", !.delay = 27000]

\* Payloads that are not as the tests write them: a member dropped, a
\* member of the wrong type, a field given under both its keys, an i32 out
\* of range, a key no field answers to, a vehicle type of neither spelling.
Without(ms, i) == SubSeq(ms, 1, i - 1) \o SubSeq(ms, i + 1, Len(ms))
Spoiled ==
    LET bases == {CompactJson(Vehicle0).o, VerboseJson(Vehicle1).o}
    IN  {JObj(Without(ms, i)) : ms \in bases, i \in 1..Len(BusFields)}
        \cup {JObj([ms EXCEPT ![i].v = JNull]) : ms \in bases, i \in 1..Len(BusFields)}
        \cup {JObj(Append(ms, Member("code", JNum(7)))) : ms \in bases}
        \cup {JObj(Append(ms, Member("v", JNum(7)))) : ms \in bases}
        \cup {JObj([ms EXCEPT ![1].v = JBig]) : ms \in bases}
        \cup {JObj(Append(ms, Member("z", JNull))) : ms \in bases}
        \cup {JObj([ms EXCEPT ![6].v = JStr("bus")]) : ms \in bases}
        \cup {JStr("bus"), JArr(<<>>)}
        \cup {JArr([i \in 1..Len(ms) |-> ms[i].v]) : ms \in bases}

\* The elements of the arrays handed to the BusList decoder.
BatchElems ==
    {JStr("2025-02-26 23:38:00"), JNum(42), CompactJson(Vehicle0),
     VerboseJson(Vehicle1), JObj(Without(CompactJson(Vehicle0).o, 9))}
Batches == {JArr(xs) : xs \in SeqsUpTo(BatchElems, MaxLen)} \cup {JObj(<<>>)}

DecStart ==
    /\ dop = "none"
    /\ din = <<>>
    /\ dout = <<>>

\* Each call of serde_json::from_str is a run of its own: the decoders keep
\* nothing between calls, so every input is decoded from the start state.
\* serde_json::from_str::<Bus>(json)
DecodeBus ==
    /\ dop = "none"
    /\ \E v \in Spoiled \cup {CompactJson(b) : b \in Vehicles} :
          /\ din' = <<v>>
          /\ dout' = <<DeBus(v)>>
    /\ dop' = "Bus"
    /\ UNCHANGED <<simsVars, mpkVars>>

\* One vehicle written in both spellings, each decoded, the first twice.
DecodeSpellings ==
    /\ dop = "none"
    /\ \E b \in Vehicles :
          /\ din' = <<CompactJson(b), VerboseJson(b), CompactJson(b)>>
          /\ dout' = <<DeBus(CompactJson(b)), DeBus(VerboseJson(b)),
                       DeBus(CompactJson(b))>>
    /\ dop' = "Spellings"
    /\ UNCHANGED <<simsVars, mpkVars>>

\* serde_json::from_str::<BusList>(json)
DecodeBusList ==
    /\ dop = "none"
    /\ \E v \in Batches :
          /\ din' = <<v>>
          /\ dout' = <<DeBusList(v)>>
    /\ dop' = "BusList"
    /\ UNCHANGED <<simsVars, mpkVars>>

DecNext ==
    \/ DecodeBus
    \/ DecodeSpellings
    \/ DecodeBusList

(***************************************************************************)
(*                          The specifications                             *)
(***************************************************************************)
Init == SimsStart /\ MpkStart /\ DecStart

Next == SimsNext \/ MpkNext \/ DecNext

Spec == Init /\ [][Next]_vars

SpecSims == Init /\ [][SimsNext]_vars

\* The executor polls a future that can make progress: the stream takes the
\* next host once the previous leg is done, and the collected Vec is
\* partitioned and returned once the stream is exhausted.  Nothing obliges
\* the network to answer.
FairSims ==
    /\ SpecSims
    /\ \A h \in Hosts : WF_vars(Dispatch(h))
    /\ WF_vars(Return)

SpecMpk == Init /\ [][MpkNext]_vars

SpecDecode == Init /\ [][DecNext]_vars

(***************************************************************************)
(*                  Properties of the mirror fan-out                       *)
(***************************************************************************)

(***************************************************************************)
(* What the caller should get, from what the network delivered alone.      *)
(***************************************************************************)
LegSucceeded(h) ==
    /\ delivered[h].kind = "body"
    /\ \A k \in 1..Len(delivered[h].body) : delivered[h].body[k] \in Records
LegFailed(h) == delivered[h].kind # "none" /\ ~LegSucceeded(h)

Count(s, v) == Cardinality({k \in 1..Len(s) : s[k] = v})

RECURSIVE SumOver(_, _)
SumOver(f, S) ==
    IF S = {} THEN 0
    ELSE LET h == CHOOSE x \in S : TRUE IN f[h] + SumOver(f, S \ {h})

StageOf(h) ==
    CASE delivered[h].kind = "sendfail" -> "send"
      [] delivered[h].kind = "bodyfail" -> "body"
      [] OTHER -> "decode"

RECURSIVE ItemsFrom(_)
ItemsFrom(h) ==
    IF h > NumHosts THEN <<>>
    ELSE (IF LegSucceeded(h) THEN delivered[h].body ELSE <<>>) \o ItemsFrom(h + 1)

RECURSIVE ErrorsFrom(_)
ErrorsFrom(h) ==
    IF h > NumHosts THEN <<>>
    ELSE (IF LegFailed(h) THEN <<[host |-> h, stage |-> StageOf(h)]>> ELSE <<>>)
         \o ErrorsFrom(h + 1)

\* C1: whatever each of the 3 legs did (records, transport failure, decode
\* failure), the call returns a pair: the successes hold exactly the records
\* of the hosts whose leg succeeded (each record as often as those hosts sent
\* it), the errors hold exactly one error per failed host and none for the
\* others, also when no mirror succeeded.
C1_FanOutIsolation ==
    pc = "returned" =>
        /\ ret.set
        /\ \A h \in Hosts : LegSucceeded(h) \/ LegFailed(h)
        /\ \A v \in Elems :
              Count(ret.items, v) =
                SumOver([h \in Hosts |->
                            IF LegSucceeded(h) THEN Count(delivered[h].body, v) ELSE 0],
                        Hosts)
        /\ \A h \in Hosts :
              Cardinality({k \in 1..Len(ret.errors) : ret.errors[k].host = h})
                = IF LegFailed(h) THEN 1 ELSE 0
        /\ Len(ret.errors) = Cardinality({h \in Hosts : LegFailed(h)})

\* Witnesses of C1: one host fails between two that succeed; no host succeeds.
C1_Witness ==
    /\ pc = "returned"
    /\ LegSucceeded(1) /\ delivered[1].body # <<>>
    /\ delivered[2].kind = "sendfail"
    /\ LegSucceeded(3) /\ delivered[3].body # <<>>
    /\ Len(ret.items) = Len(delivered[1].body) + Len(delivered[3].body)
    /\ Len(ret.errors) = 1

\* C2: the request to a host is issued without waiting for any other host's
\* leg to complete: while some host's leg is outstanding, a host that has
\* not been sent its request yet can be sent it at once.
C2_ConcurrentDispatch ==
    \A g, h \in Hosts :
        (pc = "running" /\ Outstanding(g) /\ leg[h] = "unissued")
            => ENABLED Dispatch(h)

\* The state C2 asks for, all 3 legs outstanding at once, is never reached:
\* this is an invariant of the fan-out as written.
C2_NeverAllOutstanding == ~(\A h \in Hosts : Outstanding(h))

\* C3: the successes are the succeeding hosts' records concatenated in
\* API_URLS order, each host's own order kept, and the errors are the
\* failing hosts' errors in API_URLS order: a function of the per-host
\* outcomes alone.
C3_DispatchOrder ==
    pc = "returned" =>
        /\ ret.items = ItemsFrom(1)
        /\ ret.errors = ErrorsFrom(1)

\* Witnesses of C3: host 1 answers with two different records and host 3
\* with another order of them, host 2 fails in decode; or host 2 answers and
\* hosts 1 and 3 fail differently, so that the order of the errors shows.
C3_Witness ==
    /\ pc = "returned"
    /\ \/ /\ LegSucceeded(1) /\ LegSucceeded(3)
          /\ Len(delivered[1].body) = 2 /\ delivered[1].body[1] # delivered[1].body[2]
          /\ delivered[3].body # <<>> /\ delivered[3].body[1] # delivered[1].body[1]
          /\ ret.items = delivered[1].body \o delivered[3].body
          /\ ret.errors = <<DecodeError(2)>>
       \/ /\ LegSucceeded(2)
          /\ ret.items = delivered[2].body
          /\ ret.errors = <<DecodeError(1), SendError(3)>>

\* C4: no result is in the caller's hands while a leg is unsettled, and once
\* every leg has settled the call returns.
C4_ReturnsAfterAllSettle ==
    /\ [](ret.set => \A h \in Hosts : Settled(h))
    /\ ((pc = "running" /\ \A h \in Hosts : Settled(h)) ~> pc = "returned")

\* Witness of C4: the call has returned although the first leg failed and
\* the second succeeded.
C4_Witness ==
    /\ ret.set
    /\ pc = "returned"
    /\ leg[1] = "err" /\ leg[2] = "ok"
    /\ \A h \in Hosts : Settled(h)

\* C10: during one call every host is sent at most one GET, a host whose leg
\* has been started or has settled (failed or not) was sent exactly one, and
\* when the result is returned, and ever after until the next call, every
\* host has been sent exactly one.
C10_NoRetry ==
    \A h \in Hosts :
        /\ sent[h] <= 1
        /\ leg[h] # "unissued" => sent[h] = 1
        /\ pc = "returned" => sent[h] = 1

\* Witness of C10: returned, two legs failed (send, decode), one GET each.
C10_Witness ==
    /\ pc = "returned"
    /\ delivered[1].kind = "sendfail"
    /\ LegFailed(2) /\ delivered[2].kind = "body"
    /\ \A h \in Hosts : sent[h] = 1

(***************************************************************************)
(*             Properties of the digest-authenticated fetch                *)
(***************************************************************************)
\* C5: every call first sends a GET without credentials; a first response
\* that is no 401 is the response of the call and no second GET is sent; a
\* GET with credentials is sent only after a first response of this call
\* that was a 401, and it answers the nonce of that response; no call sends
\* more than two GETs.
C5_HandshakeSequencing ==
    /\ Len(reqs) <= 2
    /\ mpc # "idle" => (Len(reqs) >= 1 /\ reqs[1] = NoAuth)
    /\ (resp1 # NoResp /\ ~IsUnauthorized(resp1.status)) =>
            (Len(reqs) = 1 /\ used = 1 /\ resp2 = NoResp)
    /\ Len(reqs) = 2 =>
            /\ resp1 # NoResp
            /\ IsUnauthorized(resp1.status)
            /\ resp1.chal \in Nonces
            /\ reqs[2].scheme = "Digest"
            /\ reqs[2].nonce = resp1.chal
            /\ reqs[2].response = <<USERNAME, PASSWORD, resp1.chal>>
    /\ used = 2 => (Len(reqs) = 2 /\ resp2 # NoResp)

\* Witness of C5: a call has answered the challenge n2 and finished with the
\* second response.
C5_Witness ==
    /\ mpc = "done"
    /\ Len(reqs) = 2
    /\ resp1.chal = "n2"
    /\ reqs[2].nonce = "n2"
    /\ used = 2
    /\ mres.kind = "Ok"

\* C6: when the response to the second, authenticated GET is another 401 or
\* has any status outside 2xx, its body is never decoded and the call ends
\* with an authentication-failed error that carries that status.
C6_AuthFailureIsError ==
    (resp2 # NoResp /\ ~Is2xx(resp2.status)) =>
        /\ mbody = NoBody
        /\ mpc = "done" =>
              /\ mres.kind = "AuthenticationFailed"
              /\ mres.val = resp2.status

\* A weaker reading of C6, violated too: a second response that is a 401 is
\* decoded like any other, also into a success value.
C6_RejectedNeverSucceeds ==
    (resp2 # NoResp /\ IsUnauthorized(resp2.status)) => mres.kind # "Ok"

Fits(fields, b) == IsObject(b) /\ \A k \in fields : b[k].t = "string"

\* C7: for every body that was read, exactly one of three outcomes: the
\* call returns Ok(T) with the body's fields if the body has the success
\* shape (also when it has the error shape too); it returns
\* ClientError::MpkError with the body's info, message and stackTrace if the
\* body has the error shape and not the success shape, whatever the status
\* of the response; it returns a decode error if the body has neither.
C7_SuccessFirstUnion ==
    (mpc = "done" /\ mbody # NoBody) =>
        /\ Fits(tshape, mbody) =>
              mres = [kind |-> "Ok", val |-> [k \in tshape |-> mbody[k].v]]
        /\ (~Fits(tshape, mbody) /\ Fits(MpkErrorFields, mbody)) =>
              mres = [kind |-> "MpkError",
                      val |-> [k \in {"info", "message", "stackTrace"} |-> mbody[k].v]]
        /\ (~Fits(tshape, mbody) /\ ~Fits(MpkErrorFields, mbody)) =>
              mres = [kind |-> "ReqwestError", val |-> "decode"]
        /\ mres.kind \in {"Ok", "MpkError", "ReqwestError"}

\* Witness of C7: a 200 response whose body has only the error shape ends
\* as ClientError::MpkError.
C7_Witness ==
    /\ mpc = "done"
    /\ used = 1 /\ resp1.status = 200
    /\ ~Fits(tshape, mbody) /\ Fits(MpkErrorFields, mbody)
    /\ mbody["info"].v = "X" /\ mbody["message"].v = "Y"
    /\ mres.kind = "MpkError"
    /\ mres.val["message"] = "Y"

\* Violated, that is reached: a body with both shapes ends as a success.
C7_BothShapesReached ==
    ~(/\ mpc = "done"
      /\ Fits(tshape, mbody) /\ Fits(MpkErrorFields, mbody)
      /\ mres.kind = "Ok")

(***************************************************************************)
(*                     Properties of the decoders                          *)
(***************************************************************************)
IsRecord(v) == DeBus(v).ok

\* The position (from 1) of the first element after the metadata that is no
\* record, or 0.
FirstBad(xs) ==
    IF \E i \in 2..Len(xs) : ~IsRecord(xs[i])
    THEN CHOOSE i \in 2..Len(xs) :
            ~IsRecord(xs[i]) /\ \A j \in 2..(i - 1) : IsRecord(xs[j])
    ELSE 0

\* What C8 and its amendment share: decoding succeeds if and only if the
\* array is not empty, element 0 is a string and every later element decodes
\* as a record, and then gives element 0 as the metadata and the records in
\* input order; an empty array fails with invalid length 0 (EmptyBatch), an
\* element 0 that is no string with invalid type, expected a string
\* (InvalidMetadata); a failure gives no list at all.
BatchAllOrNothing ==
    (dop = "BusList" /\ din[1].t = "array") =>
        LET xs == din[1].a
            r == dout[1]
        IN  /\ r.ok <=> (/\ xs # <<>>
                         /\ xs[1].t = "string"
                         /\ \A i \in 2..Len(xs) : IsRecord(xs[i]))
            /\ r.ok => /\ r.val.timestamp = xs[1].s
                       /\ Len(r.val.buses) = Len(xs) - 1
                       /\ \A i \in 1..Len(r.val.buses) :
                             r.val.buses[i] = DeBus(xs[i + 1]).val
            /\ xs = <<>> => r.err = SerdeError("invalid length", "0")
            /\ (xs # <<>> /\ xs[1].t # "string") =>
                  r.err = SerdeError("invalid type", "string")
            /\ ~r.ok => r.val = <<>>

C8_SuccessReached ==
    ~(/\ dop = "BusList"
      /\ dout[1].ok
      /\ Len(dout[1].val.buses) = 2
      /\ dout[1].val.buses[1] # dout[1].val.buses[2])

\* C9: a vehicle written with the single-letter keys and "b" / "t", and the
\* same vehicle written with the long keys and "BUS" / "TRAM", both decode,
\* and to equal Bus values, which hold what the payload says; decoding the
\* first payload again gives the same result again.
C9_SpellingsDecodeEqual ==
    dop = "Spellings" =>
        /\ dout[1].ok /\ dout[2].ok
        /\ dout[1].val = dout[2].val
        /\ dout[3] = dout[1]
        /\ dout[1].val["code"].i = din[1].o[1].v.n
        /\ dout[1].val["delay"].i = din[2].o[9].v.n
        /\ dout[1].val["vehicle_type"].s =
              (IF din[1].o[6].v.s = "b" THEN "Bus" ELSE "Tram")
        /\ dout[2].val["vehicle_type"].s =
              (IF din[2].o[6].v.s = "BUS" THEN "Bus" ELSE "Tram")

\* Witness of C9: a tram with a delay, written both ways, has decoded.
C9_Witness ==
    /\ dop = "Spellings"
    /\ din[1].o[1].k = "v" /\ din[2].o[1].k = "code"
    /\ din[1].o[6] = Member("t", JStr("t"))
    /\ din[2].o[6] = Member("type", JStr("TRAM"))
    /\ dout[1].ok /\ dout[2].ok
    /\ dout[2].val["vehicle_type"].s = "Tram"
    /\ dout[1].val["delay"].i = 27000

=============================================================================
